---- MODULE Spec2Model ----
(***************************************************************************)
(* Model of the iteration-limited handoff router (routers/limit_router.py) *)
(* and of the workflow that installs it (main.py).                         *)
(*                                                                         *)
(* A LimitRouter instance has two fields that matter: config.max_iterations*)
(* and current_iteration.  route() is a coroutine: everything up to the    *)
(* `await` of the wrapped AgentRouter runs without suspension (RouteCall), *)
(* the wrapped router then either returns a HandOffRequest or raises, and  *)
(* route() resumes and hands that outcome to its caller (RouteResume).     *)
(***************************************************************************)
EXTENDS Integers, Sequences, FiniteSets, TLC

\* ------------------------------------------------------------------ bounds
MaxM == 3          \* largest configured max_iterations explored
MaxCalls == 9      \* route calls explored per router instance
NumRouters == 2    \* LimitRouter instances that can be constructed
NumTasks == 2      \* asyncio tasks that can call route
MaxConcCalls == 5  \* route calls explored when several tasks share an instance
MaxImages == 2     \* calls of the image tool explored
TicksPerSecond == 2  \* clock ticks in one second of the filename timestamp

\* ------------------------------------------------------------------ values
Routers == 1..NumRouters
Tasks == 1..NumTasks

\* Python's None, as opposed to the empty string "".
PyNone == "None"

\* The three agents main.py registers with the Flock.
Agents == {"research_agent", "summary_agent", "html_agent"}

\* Opaque agent outputs and execution contexts handed to route().
Results == {"result_a", "result_b"}
Contexts == {"context_a", "context_b"}

\* The (current_agent, result, context) triple of one route() call.
RouteArgs == [current_agent : Agents, result : Results, context : Contexts]
NoArgs == [current_agent |-> PyNone, result |-> PyNone, context |-> PyNone]

\* HandOffRequest.next_agent as the wrapped router can set it: an agent
\* name, None, or the empty string.
NextAgentValues == Agents \cup {PyNone, ""}

\* Exceptions the wrapped router can raise.
Errors == {"ValueError", "TimeoutError"}

\* HandOffRequest(next_agent = x)
HandOffRequest(x) == [next_agent |-> x]

\* How a call ends: a returned HandOffRequest or a raised exception.
Returned(req) == [kind |-> "return", next_agent |-> req.next_agent, error |-> "-"]
Raised(e) == [kind |-> "raise", next_agent |-> "-", error |-> e]
NoOutcome == [kind |-> "none", next_agent |-> "-", error |-> "-"]

\* Every outcome the wrapped AgentRouter.route can produce.
DelegateOutcomes ==
  {Returned(HandOffRequest(x)) : x \in NextAgentValues} \cup {Raised(e) : e \in Errors}

\* The Flock orchestrator stops the pipeline when next_agent is falsy.
IsTerminal(out) == out.kind = "return" /\ out.next_agent \in {PyNone, ""}

\* ------------------------------------------------------------------ state
VARIABLES
  live,               \* constructed LimitRouter instances
  max_iterations,     \* config.max_iterations of each instance
  orchestrator,       \* config.orchestrator of each instance (0: no instance)
  current_iteration,  \* current_iteration of each instance
  calls,              \* per instance, the route() calls made on it, in order
  stdout,             \* number of "Maximum iterations ... reached" lines printed
  pc,                 \* per task: "idle", or "awaiting" the wrapped router
  self,               \* per task: the instance its current/last call is on
  idx,                \* per task: position of that call in calls[self]
  args,               \* per task: the arguments route() received
  dargs,              \* per task: the arguments the wrapped router received
  dret,               \* per task: how the wrapped router's call ended
  ret,                \* per task: how route() ended
  settings_max_iterations,  \* APP_SETTINGS.max_iterations
  handoff_router,     \* per agent: its handoff_router field (0: not set)
  run,                \* per task: the run_full_workflow invocation it executes
  main,               \* per task: the main() invocation it executes
  clock,              \* wall clock, in ticks
  files,              \* image files in the output directory, with their writer
  images              \* the calls of the image tool so far, in order

rvars == <<live, max_iterations, orchestrator, current_iteration, calls, stdout>>
tvars == <<pc, self, idx, args, dargs, dret, ret>>
ovars == <<settings_max_iterations, handoff_router, run>>
ivars == <<clock, files, images>>
vars == <<live, max_iterations, orchestrator, current_iteration, calls, stdout,
          pc, self, idx, args, dargs, dret, ret,
          settings_max_iterations, handoff_router, run, main,
          clock, files, images>>

\* ------------------------------------------------------------------ route()
\* self.current_iteration += 1
IncrementedMissing(n) == n
Incremented(n) == n + 1

\* if self.current_iteration > self.config.max_iterations
CeilingReachedOffByOne(n, m) == n >= m
CeilingReachedLate(n, m) == n > m + 1
CeilingReached(n, m) == n > m

\* self.current_iteration = 0
ResetNever(n) == n
ResetIteration(n) == 0

\* return HandOffRequest(next_agent="")  # Empty string stops execution
StopRequestKeepsGoing == HandOffRequest("summary_agent")
StopRequest == HandOffRequest("")

\* print(f"Maximum iterations ({...}) reached. Stopping execution.")
PrintedNothing(lines) == lines
Printed(lines) == lines + 1

\* The ceiling branch ends route() by returning that request.
CeilingOutcomeRaises == Raised("RuntimeError")
CeilingOutcome == Returned(StopRequest)

\* The keyword arguments of self.config.orchestrator.route(...).
ForwardedArgsDropsResult(a) == [a EXCEPT !.result = "result_a"]
ForwardedArgs(a) == a

\* `return await ...`: the awaited outcome is route()'s own outcome, a raised
\* exception included (there is no try/except around the await).
AwaitOutcomeWraps(out) ==
  IF out.kind = "raise" THEN Raised("RuntimeError") ELSE out
AwaitOutcome(out) == out

\* One entry of the call history of an instance.
CallEntry(t, branch, pre, after, diag, delegated) ==
  [task |-> t, branch |-> branch, pre |-> pre, after |-> after,
   diag |-> diag, delegated |-> delegated]

\* route() from its first statement to the return of the ceiling branch or
\* to the await of the wrapped router.
RouteCallResetsCeiling(t, r, a) ==
  /\ pc[t] = "idle"
  /\ r \in live
  /\ Len(calls[r]) < MaxCalls
  /\ LET n == Incremented(current_iteration[r]) IN
       IF CeilingReached(n, max_iterations[r])
       THEN /\ stdout' = Printed(stdout)
            /\ current_iteration' = [current_iteration EXCEPT ![r] = ResetIteration(n)]
            /\ max_iterations' = [max_iterations EXCEPT ![r] = 0]
            /\ calls' = [calls EXCEPT ![r] =
                 Append(@, CallEntry(t, "ceiling", current_iteration[r],
                                     ResetIteration(n), stdout' - stdout, 0))]
            /\ ret' = [ret EXCEPT ![t] = CeilingOutcome]
            /\ dargs' = [dargs EXCEPT ![t] = NoArgs]
            /\ pc' = pc
       ELSE /\ stdout' = stdout
            /\ current_iteration' = [current_iteration EXCEPT ![r] = n]
            /\ max_iterations' = max_iterations
            /\ calls' = [calls EXCEPT ![r] =
                 Append(@, CallEntry(t, "delegate", current_iteration[r], n,
                                     stdout' - stdout, 1))]
            /\ ret' = [ret EXCEPT ![t] = NoOutcome]
            /\ dargs' = [dargs EXCEPT ![t] = ForwardedArgs(a)]
            /\ pc' = [pc EXCEPT ![t] = "awaiting"]
  /\ self' = [self EXCEPT ![t] = r]
  /\ idx' = [idx EXCEPT ![t] = Len(calls[r]) + 1]
  /\ args' = [args EXCEPT ![t] = a]
  /\ dret' = [dret EXCEPT ![t] = NoOutcome]
  /\ UNCHANGED <<live, orchestrator>>
RouteCall(t, r, a) ==
  /\ pc[t] = "idle"
  /\ r \in live
  /\ Len(calls[r]) < MaxCalls
  /\ LET n == Incremented(current_iteration[r]) IN
       IF CeilingReached(n, max_iterations[r])
       THEN /\ stdout' = Printed(stdout)
            /\ current_iteration' = [current_iteration EXCEPT ![r] = ResetIteration(n)]
            /\ calls' = [calls EXCEPT ![r] =
                 Append(@, CallEntry(t, "ceiling", current_iteration[r],
                                     ResetIteration(n), stdout' - stdout, 0))]
            /\ ret' = [ret EXCEPT ![t] = CeilingOutcome]
            /\ dargs' = [dargs EXCEPT ![t] = NoArgs]
            /\ pc' = pc
       ELSE /\ stdout' = stdout
            /\ current_iteration' = [current_iteration EXCEPT ![r] = n]
            /\ calls' = [calls EXCEPT ![r] =
                 Append(@, CallEntry(t, "delegate", current_iteration[r], n,
                                     stdout' - stdout, 1))]
            /\ ret' = [ret EXCEPT ![t] = NoOutcome]
            /\ dargs' = [dargs EXCEPT ![t] = ForwardedArgs(a)]
            /\ pc' = [pc EXCEPT ![t] = "awaiting"]
  /\ self' = [self EXCEPT ![t] = r]
  /\ idx' = [idx EXCEPT ![t] = Len(calls[r]) + 1]
  /\ args' = [args EXCEPT ![t] = a]
  /\ dret' = [dret EXCEPT ![t] = NoOutcome]
  /\ UNCHANGED <<live, max_iterations, orchestrator>>

\* The wrapped router's call ends with `out` and route() resumes after the
\* await: it returns what was returned, or lets the exception through.
RouteResumeResetsOnStop(t, out) ==
  /\ pc[t] = "awaiting"
  /\ dret' = [dret EXCEPT ![t] = out]
  /\ ret' = [ret EXCEPT ![t] = AwaitOutcome(out)]
  /\ pc' = [pc EXCEPT ![t] = "idle"]
  /\ current_iteration' =
       IF IsTerminal(out) THEN [current_iteration EXCEPT ![self[t]] = 0]
       ELSE current_iteration
  /\ calls' = [calls EXCEPT ![self[t]][idx[t]].after = current_iteration'[self[t]]]
  /\ UNCHANGED <<live, max_iterations, orchestrator, stdout, self, idx, args, dargs>>
RouteResumeWritesBack(t, out) ==
  /\ pc[t] = "awaiting"
  /\ dret' = [dret EXCEPT ![t] = out]
  /\ ret' = [ret EXCEPT ![t] = AwaitOutcome(out)]
  /\ pc' = [pc EXCEPT ![t] = "idle"]
  /\ current_iteration' =
       [current_iteration EXCEPT ![self[t]] = calls[self[t]][idx[t]].pre + 1]
  /\ calls' = [calls EXCEPT ![self[t]][idx[t]].after = current_iteration'[self[t]]]
  /\ UNCHANGED <<live, max_iterations, orchestrator, stdout, self, idx, args, dargs>>
RouteResume(t, out) ==
  /\ pc[t] = "awaiting"
  /\ dret' = [dret EXCEPT ![t] = out]
  /\ ret' = [ret EXCEPT ![t] = AwaitOutcome(out)]
  /\ pc' = [pc EXCEPT ![t] = "idle"]
  /\ calls' = [calls EXCEPT ![self[t]][idx[t]].after = current_iteration[self[t]]]
  /\ UNCHANGED <<live, max_iterations, orchestrator, current_iteration, stdout,
                 self, idx, args, dargs>>

\* ------------------------------------------------------------------ Spec
\* LimitRouterConfig(max_iterations = m): the field is a plain `int` with a
\* default and a description, no bound and no validator, so every integer
\* is accepted.
ConfigAccepts(m) == m \in Int

\* A LimitRouter constructed with max_iterations = m: current_iteration
\* takes its default 0.
Constructed(r, m) ==
  /\ ConfigAccepts(m)
  /\ live = {r}
  /\ max_iterations = [x \in Routers |-> IF x = r THEN m ELSE 0]
  /\ orchestrator = [x \in Routers |-> IF x = r THEN r ELSE 0]
  /\ current_iteration = [x \in Routers |-> 0]
  /\ calls = [x \in Routers |-> <<>>]

TasksIdle ==
  /\ pc = [t \in Tasks |-> "idle"]
  /\ self = [t \in Tasks |-> 0]
  /\ idx = [t \in Tasks |-> 0]
  /\ args = [t \in Tasks |-> NoArgs]
  /\ dargs = [t \in Tasks |-> NoArgs]
  /\ dret = [t \in Tasks |-> NoOutcome]
  /\ ret = [t \in Tasks |-> NoOutcome]

\* AppSettings.max_iterations: Field(default=10, ...)
DefaultMaxIterations == 10

\* No workflow has been started: the agents carry no handoff router.
NoRun == [state |-> "none", router |-> 0, agent |-> PyNone,
          executions |-> 0, handoffs |-> 0, carry |-> 0,
          result |-> "none", saved_html_path |-> FALSE, save_error |-> FALSE]
\* main() has not been entered.
NoMain == [state |-> "none", readable |-> FALSE, asked |-> FALSE, eof |-> FALSE,
           raw |-> <<>>, topic |-> <<>>, exit |-> "-"]
NoWorkflow ==
  /\ handoff_router = [a \in Agents |-> 0]
  /\ run = [t \in Tasks |-> NoRun]
  /\ main = [t \in Tasks |-> NoMain]

\* The image tool has not been called and the output directory is empty.
NoImages ==
  /\ clock = 0
  /\ files = {}
  /\ images = <<>>

\* One fresh instance, driven by a single caller.
Init ==
  /\ \E m \in (-1)..MaxM : Constructed(1, m)
  /\ stdout = 0
  /\ TasksIdle
  /\ settings_max_iterations = DefaultMaxIterations
  /\ NoWorkflow
  /\ NoImages

Call == (\E a \in RouteArgs : RouteCall(1, 1, a)) /\ UNCHANGED <<ovars, ivars, main>>
Resume == (\E out \in DelegateOutcomes : RouteResume(1, out)) /\ UNCHANGED <<ovars, ivars, main>>

Next == Call \/ Resume

Spec == Init /\ [][Next]_vars

\* ------------------------------------------------------------------ SpecConc
\* Several coroutines share one instance.  asyncio switches coroutines only
\* at an await, and route() has a single one, that of the wrapped router:
\* the calls interleave as whole RouteCall and RouteResume steps.
ConcArgs ==
  {a \in RouteArgs : /\ a.current_agent = "research_agent"
                     /\ a.result = "result_a"
                     /\ a.context = "context_a"}

\* What the wrapped router does there: it names an agent, stops, or raises.
ConcOutcomes ==
  {Returned(HandOffRequest("summary_agent")), Returned(HandOffRequest("")),
   Raised("ValueError")}

ConcCall ==
  /\ Len(calls[1]) < MaxConcCalls
  /\ \E t \in Tasks, a \in ConcArgs : RouteCall(t, 1, a)
  /\ UNCHANGED <<ovars, ivars, main>>
ConcResume ==
  (\E t \in Tasks, out \in ConcOutcomes : RouteResume(t, out)) /\ UNCHANGED <<ovars, ivars, main>>

NextConc == ConcCall \/ ConcResume

SpecConc == Init /\ [][NextConc]_vars

\* ------------------------------------------------------------------ workflow
\* The instance a new LimitRouter(...) becomes: the first one not yet in use.
FreshRouter == CHOOSE r \in Routers \ live : \A x \in Routers \ live : r <= x

\* A run_full_workflow that keeps one LimitRouter for all its invocations:
\* only the first one constructs it, later ones find it as it was left.
StartWorkflowSharedRouter(t) ==
  /\ run[t].state \in {"none", "returned", "raised"}
  /\ pc[t] = "idle"
  /\ live # Routers
  /\ ConfigAccepts(settings_max_iterations)
  /\ LET shared == live # {}
         r == IF shared THEN CHOOSE x \in live : TRUE ELSE FreshRouter
     IN
       /\ live' = live \cup {r}
       /\ max_iterations' = [max_iterations EXCEPT ![r] = settings_max_iterations]
       /\ orchestrator' = [orchestrator EXCEPT ![r] = r]
       /\ current_iteration' =
            IF shared THEN current_iteration
            ELSE [current_iteration EXCEPT ![r] = 0]
       /\ calls' = IF shared THEN calls ELSE [calls EXCEPT ![r] = <<>>]
       /\ handoff_router' = [a \in Agents |-> r]
       /\ run' = [run EXCEPT ![t] =
            [state |-> "executing", router |-> r, agent |-> "research_agent",
             executions |-> 0, handoffs |-> 0, carry |-> 0,
             result |-> "none", saved_html_path |-> FALSE, save_error |-> FALSE]]
  /\ UNCHANGED <<stdout, pc, self, idx, args, dargs, dret, ret,
                 settings_max_iterations, ivars>>

\* run_full_workflow up to the await of flock.run_async: it constructs a
\* LimitRouter with APP_SETTINGS.max_iterations around a new AgentRouter,
\* makes it the handoff_router of the three agents and starts the flock at
\* research_agent.
StartWorkflow(t) ==
  /\ run[t].state \in {"none", "returned", "raised"}
  /\ pc[t] = "idle"
  /\ live # Routers
  /\ ConfigAccepts(settings_max_iterations)
  /\ LET r == FreshRouter IN
       /\ live' = live \cup {r}
       /\ max_iterations' = [max_iterations EXCEPT ![r] = settings_max_iterations]
       /\ orchestrator' = [orchestrator EXCEPT ![r] = r]
       /\ current_iteration' = [current_iteration EXCEPT ![r] = 0]
       /\ calls' = [calls EXCEPT ![r] = <<>>]
       /\ handoff_router' = [a \in Agents |-> r]
       /\ run' = [run EXCEPT ![t] =
            [state |-> "executing", router |-> r, agent |-> "research_agent",
             executions |-> 0, handoffs |-> 0, carry |-> 0,
             result |-> "none", saved_html_path |-> FALSE, save_error |-> FALSE]]
  /\ UNCHANGED <<stdout, pc, self, idx, args, dargs, dret, ret,
                 settings_max_iterations, ivars>>

\* The orchestrator runs the current agent, which produces a result, and
\* then calls route() on that agent's handoff_router.
AgentExecutes(t) ==
  /\ run[t].state = "executing"
  /\ \E res \in Results, ctx \in Contexts :
       RouteCall(t, handoff_router[run[t].agent],
                 [current_agent |-> run[t].agent, result |-> res, context |-> ctx])
  /\ run' = [run EXCEPT ![t].state = "routing", ![t].executions = @ + 1]
  /\ UNCHANGED <<settings_max_iterations, handoff_router, ivars, main>>

\* The current agent fails: flock.run_async raises and so does the workflow.
AgentRaises(t) ==
  /\ run[t].state = "executing"
  /\ run' = [run EXCEPT ![t].state = "failed", ![t].executions = @ + 1]
  /\ UNCHANGED <<rvars, tvars, settings_max_iterations, handoff_router, ivars, main>>

\* The wrapped AgentRouter answers the route() call of the run.
DelegateAnswers(t) ==
  /\ run[t].state = "routing"
  /\ \E out \in DelegateOutcomes : RouteResume(t, out)
  /\ UNCHANGED <<ovars, ivars, main>>

\* The orchestrator acts on what route() gave it: it stops on a falsy
\* next_agent, fails on an exception, and otherwise hands off to the agent
\* named.
OrchestratorStep(t) ==
  /\ run[t].state = "routing"
  /\ pc[t] = "idle"
  /\ run' = [run EXCEPT ![t] =
       IF ret[t].kind = "raise" THEN [@ EXCEPT !.state = "failed"]
       ELSE IF IsTerminal(ret[t]) THEN [@ EXCEPT !.state = "halted"]
       ELSE [@ EXCEPT !.state = "executing", !.agent = ret[t].next_agent,
                      !.handoffs = @ + 1]]
  /\ UNCHANGED <<rvars, tvars, settings_max_iterations, handoff_router, ivars, main>>

\* What flock.run_async hands back: a dict with html_content, a dict
\* without it, or nothing.
FlockResults == {"html", "plain", "empty"}

\* if result and isinstance(result, dict) and 'html_content' in result
TriesSave(result) == result = "html"

\* The inner try/except around save_html_article: a failure of the save is
\* printed as a warning and the workflow goes on to `return result`.
AfterSavePropagates(result, save_ok) ==
  IF TriesSave(result) /\ ~save_ok THEN "raised" ELSE "returned"
AfterSave(result, save_ok) == "returned"

\* result['saved_html_path'] = saved_path, reached only when the save
\* returned.
SetsSavedPath(result, save_ok) == TriesSave(result) /\ save_ok

\* run_full_workflow after flock.run_async has returned: the HTML article
\* is saved if there is one, and the result is returned.
FinishWorkflow(t) ==
  /\ run[t].state = "halted"
  /\ \E result \in FlockResults, save_ok \in BOOLEAN :
       run' = [run EXCEPT ![t].state = AfterSave(result, save_ok),
                          ![t].result = result,
                          ![t].saved_html_path = SetsSavedPath(result, save_ok),
                          ![t].save_error = TriesSave(result) /\ ~save_ok]
  /\ UNCHANGED <<rvars, tvars, settings_max_iterations, handoff_router, ivars, main>>

\* The outer `except Exception`: print, traceback, `raise`.
AfterFailure == "raised"

\* run_full_workflow after flock.run_async (or the set-up before it) has
\* raised.
WorkflowRaises(t) ==
  /\ run[t].state = "failed"
  /\ run' = [run EXCEPT ![t].state = AfterFailure]
  /\ UNCHANGED <<rvars, tvars, settings_max_iterations, handoff_router, ivars, main>>

\* The set-up of run_full_workflow fails and the workflow never reaches
\* flock.run_async: either while the routers are constructed, when nothing
\* has been assigned yet, or later, in Flock(...) or configure_logging,
\* when the new LimitRouter already is the handoff_router of the agents.
SetupFails(t) ==
  /\ run[t].state \in {"none", "returned", "raised"}
  /\ pc[t] = "idle"
  /\ \/ /\ run' = [run EXCEPT ![t] = [NoRun EXCEPT !.state = "failed"]]
        /\ UNCHANGED <<rvars, handoff_router>>
     \/ /\ live # Routers
        /\ ConfigAccepts(settings_max_iterations)
        /\ LET r == FreshRouter IN
             /\ live' = live \cup {r}
             /\ max_iterations' =
                  [max_iterations EXCEPT ![r] = settings_max_iterations]
             /\ orchestrator' = [orchestrator EXCEPT ![r] = r]
             /\ current_iteration' = [current_iteration EXCEPT ![r] = 0]
             /\ calls' = [calls EXCEPT ![r] = <<>>]
             /\ handoff_router' = [a \in Agents |-> r]
             /\ run' = [run EXCEPT ![t] =
                  [NoRun EXCEPT !.state = "failed", !.router = r]]
        /\ UNCHANGED stdout
  /\ UNCHANGED <<tvars, settings_max_iterations, ivars>>

\* No instance exists before the first workflow; MAX_ITERATIONS is read
\* from the environment once, when settings.py is imported.
InitRun ==
  /\ live = {}
  /\ max_iterations = [x \in Routers |-> 0]
  /\ orchestrator = [x \in Routers |-> 0]
  /\ current_iteration = [x \in Routers |-> 0]
  /\ calls = [x \in Routers |-> <<>>]
  /\ stdout = 0
  /\ TasksIdle
  /\ settings_max_iterations \in (-1)..MaxM
  /\ NoWorkflow
  /\ NoImages

\* Workflows run one after the other, in one task.
NextRun ==
  \/ StartWorkflow(1) /\ UNCHANGED main
  \/ SetupFails(1) /\ UNCHANGED main
  \/ AgentExecutes(1)
  \/ AgentRaises(1)
  \/ DelegateAnswers(1)
  \/ OrchestratorStep(1)
  \/ FinishWorkflow(1)
  \/ WorkflowRaises(1)

SpecRun == InitRun /\ [][NextRun]_vars

\* Agents and the wrapped router answer eventually, and the orchestrator
\* keeps stepping while a workflow is in progress.
FairSpecRun ==
  /\ SpecRun
  /\ WF_vars(AgentExecutes(1) \/ AgentRaises(1))
  /\ WF_vars(DelegateAnswers(1))
  /\ WF_vars(OrchestratorStep(1))

\* ------------------------------------------------------------------ SpecReuse
\* A caller that keeps the LimitRouter of a finished run for its next run,
\* instead of constructing one: the run starts at research_agent with the
\* counter as the previous run left it (recorded in `carry`).
ReuseWorkflow(t) ==
  /\ run[t].state \in {"halted", "failed"}
  /\ pc[t] = "idle"
  /\ run' = [run EXCEPT ![t] =
       [state |-> "executing", router |-> run[t].router,
        agent |-> "research_agent", executions |-> 0, handoffs |-> 0,
        carry |-> current_iteration[run[t].router],
        result |-> "none", saved_html_path |-> FALSE, save_error |-> FALSE]]
  /\ UNCHANGED <<rvars, tvars, settings_max_iterations, handoff_router, ivars, main>>

NextReuse ==
  \/ StartWorkflow(1) /\ UNCHANGED main
  \/ ReuseWorkflow(1)
  \/ AgentExecutes(1)
  \/ AgentRaises(1)
  \/ DelegateAnswers(1)
  \/ OrchestratorStep(1)

SpecReuse == InitRun /\ [][NextReuse]_vars

\* ------------------------------------------------------------------ SpecOverlap
\* Several tasks call run_full_workflow on the same event loop: each step
\* between two awaits of one invocation can be followed by a step of
\* another. The agents are the module-level objects of agents/*.py, shared
\* by all invocations.
\* The agents produce one result and the wrapped router answers as in
\* ConcOutcomes; the part of run_full_workflow after flock.run_async routes
\* nothing and is left out.
OverlapMaxM == 1

InitOverlap == InitRun /\ settings_max_iterations \in 0..OverlapMaxM

NextOverlap ==
  \E t \in Tasks :
    \/ StartWorkflow(t) /\ UNCHANGED main
    \/ SetupFails(t) /\ UNCHANGED main
    \/ AgentExecutes(t) /\ args'[t].result = "result_a"
                        /\ args'[t].context = "context_a"
    \/ AgentRaises(t)
    \/ DelegateAnswers(t) /\ dret'[t] \in ConcOutcomes
    \/ OrchestratorStep(t)

SpecOverlap == InitOverlap /\ [][NextOverlap]_vars

\* ------------------------------------------------------------------ main()
\* What the user types at the prompt, as sequences of characters.
Topics == {<<>>, <<" ">>, <<"\t", " ">>, <<" ", "A", "I", " ">>, <<"A", " ", "I">>}

\* str.isspace for the characters that occur in Topics.
IsSpace(c) == c \in {" ", "\t"}

\* str.strip(): leading and trailing whitespace removed.
RECURSIVE Strip(_)
Strip(str) ==
  IF str # <<>> /\ IsSpace(Head(str)) THEN Strip(Tail(str))
  ELSE IF str # <<>> /\ IsSpace(str[Len(str)])
       THEN Strip(SubSeq(str, 1, Len(str) - 1))
       ELSE str

\* The ways main() goes on from its entry: the Azure settings cannot be
\* read (early return); input() finds stdin at end-of-file and raises
\* EOFError, outside every try; `not topic.strip()` (early return);
\* otherwise run_full_workflow is called.
MainGateNoStrip(readable, eof, topic) ==
  IF ~readable THEN "no_settings"
  ELSE IF eof THEN "input_error"
  ELSE IF topic = <<>> THEN "empty_topic"
  ELSE "run"
MainGate(readable, eof, topic) ==
  IF ~readable THEN "no_settings"
  ELSE IF eof THEN "input_error"
  ELSE IF Strip(topic) = <<>> THEN "empty_topic"
  ELSE "run"

\* main() from its entry to its early end or to the await inside
\* run_full_workflow(topic.strip()); the prompt is shown only after the
\* settings were read, and `typed` is the line read when there is one.
MainStart(t, readable, eof, typed) ==
  /\ main[t].state = "none"
  /\ run[t].state = "none"
  /\ LET gate == MainGate(readable, eof, typed)
         entered == [NoMain EXCEPT !.readable = readable,
                                   !.asked = readable,
                                   !.eof = readable /\ eof,
                                   !.raw = IF readable /\ ~eof THEN typed ELSE <<>>]
     IN IF gate = "run"
        THEN /\ StartWorkflow(t) \/ SetupFails(t)
             /\ main' = [main EXCEPT ![t] =
                  [entered EXCEPT !.state = "awaiting", !.topic = Strip(typed)]]
        ELSE /\ main' = [main EXCEPT ![t] =
                  [entered EXCEPT
                     !.state = IF gate = "input_error" THEN "raised" ELSE "returned",
                     !.exit = gate]]
             /\ UNCHANGED <<rvars, tvars, ovars, ivars>>

\* How main() ends once run_full_workflow has: its `except Exception`
\* prints the error; a falsy result is reported; in each case main returns.
MainAfterWorkflow(r) ==
  [state |-> "returned",
   exit |-> IF r.state = "raised" THEN "workflow_error"
            ELSE IF r.result = "empty" THEN "no_result"
            ELSE "done"]

\* main() from the end of run_full_workflow to its own end.
MainEnd(t) ==
  /\ main[t].state = "awaiting"
  /\ run[t].state \in {"returned", "raised"}
  /\ main' = [main EXCEPT ![t].state = MainAfterWorkflow(run[t]).state,
                          ![t].exit = MainAfterWorkflow(run[t]).exit]
  /\ UNCHANGED <<rvars, tvars, ovars, ivars>>

\* One process: main() is entered once and drives one workflow.
NextMain ==
  \/ \E readable \in BOOLEAN, eof \in BOOLEAN, typed \in Topics :
       MainStart(1, readable, eof, typed)
  \/ AgentExecutes(1)
  \/ AgentRaises(1)
  \/ DelegateAnswers(1)
  \/ OrchestratorStep(1)
  \/ FinishWorkflow(1)
  \/ WorkflowRaises(1)
  \/ MainEnd(1)

SpecMain == InitRun /\ [][NextMain]_vars

\* ------------------------------------------------------------------ demo.py
\* max_iterations=3 of the demo's LimitRouterConfig, whatever the settings.
DemoMaxIterations == 3

\* The agents of the demo's flock, which get the demo's router.
DemoAgents == {"research_agent", "summary_agent"}

\* How the set-up of demo_with_routers goes: it reaches flock.run_async,
\* or AgentRouter(...) or LimitRouter(...) raises, or Flock(...) raises.
DemoSetups == {"ok", "routers", "flock"}

\* demo_with_routers up to the await of flock.run_async, or to the failure
\* of its set-up.  It constructs a LimitRouter with max_iterations 3 and
\* makes it the handoff_router of research_agent and summary_agent;
\* html_agent keeps what it had.  When a router's construction raises,
\* nothing was constructed or assigned.
DemoWithRouters(t, setup) ==
  /\ run[t].state \in {"none", "returned", "raised"}
  /\ pc[t] = "idle"
  /\ IF setup = "routers"
     THEN /\ run' = [run EXCEPT ![t] = [NoRun EXCEPT !.state = "failed"]]
          /\ UNCHANGED <<live, max_iterations, orchestrator, current_iteration,
                         calls, handoff_router>>
     ELSE /\ live # Routers
          /\ ConfigAccepts(DemoMaxIterations)
          /\ LET r == FreshRouter IN
               /\ live' = live \cup {r}
               /\ max_iterations' = [max_iterations EXCEPT ![r] = DemoMaxIterations]
               /\ orchestrator' = [orchestrator EXCEPT ![r] = r]
               /\ current_iteration' = [current_iteration EXCEPT ![r] = 0]
               /\ calls' = [calls EXCEPT ![r] = <<>>]
               /\ handoff_router' =
                    [a \in Agents |->
                       IF a \in DemoAgents THEN r ELSE handoff_router[a]]
               /\ run' = [run EXCEPT ![t] =
                    IF setup = "ok"
                    THEN [NoRun EXCEPT !.state = "executing", !.router = r,
                                       !.agent = "research_agent"]
                    ELSE [NoRun EXCEPT !.state = "failed", !.router = r]]
  /\ UNCHANGED <<stdout, tvars, settings_max_iterations, main, ivars>>

\* demo_with_routers after flock.run_async: it prints whether there was a
\* result and returns; it has no try, so a failure goes on to its caller.
DemoEnds(t) ==
  /\ run[t].state \in {"halted", "failed"}
  /\ run' = [run EXCEPT ![t].state =
               IF run[t].state = "halted" THEN "returned" ELSE "raised"]
  /\ UNCHANGED <<rvars, tvars, settings_max_iterations, handoff_router, main, ivars>>

\* The demo's AgentRouter chooses among the agents of the demo's flock.
NextDemo ==
  \/ \E setup \in DemoSetups : DemoWithRouters(1, setup)
  \/ AgentExecutes(1)
  \/ AgentRaises(1)
  \/ DelegateAnswers(1) /\ dret'[1].next_agent # "html_agent"
  \/ OrchestratorStep(1)
  \/ DemoEnds(1)

SpecDemo == InitRun /\ [][NextDemo]_vars

\* ------------------------------------------------------------------ image tool
\* Article titles, as sequences of characters.
Titles == {<<"A", "I">>, <<"A", "I", "!">>, <<"A", " ", "I", " ">>}

\* str.isalnum for the characters that occur in Titles.
IsAlnum(c) == c \in {"A", "I"}

\* safe_title = "".join(c for c in title if c.isalnum() or c in (' ', '-', '_'))
KeptChar(c) == IsAlnum(c) \/ c \in {" ", "-", "_"}

\* str.rstrip(): trailing whitespace removed.
RECURSIVE RStrip(_)
RStrip(str) ==
  IF str # <<>> /\ str[Len(str)] = " " THEN RStrip(SubSeq(str, 1, Len(str) - 1))
  ELSE str

\* The [:50] of safe_title.
SafeTitleLimit == 50

\* safe_title: kept characters, right-stripped, spaces replaced by
\* underscores, cut to 50 characters.
SafeTitle(title) ==
  LET stripped == RStrip(SelectSeq(title, KeptChar))
      under == [i \in 1..Len(stripped) |->
                 IF stripped[i] = " " THEN "_" ELSE stripped[i]]
  IN SubSeq(under, 1, IF Len(under) < SafeTitleLimit THEN Len(under)
                      ELSE SafeTitleLimit)

\* datetime.now().strftime("%Y%m%d_%H%M%S"): the clock cut to whole seconds.
Timestamp(now) == now \div TicksPerSecond

\* hashlib.md5(title.encode()).hexdigest()[:8]: a digest of the title alone,
\* taken here as free of collisions between the titles explored.
TitleHash(title) == <<"md5", title>>

\* filename = f"article_image_{safe_title}_{timestamp}_{title_hash}.png"
Filename(title, now) ==
  <<"article_image", SafeTitle(title), Timestamp(now), TitleHash(title), "png">>

\* Where one call of the tool can fail: creating the client, creating the
\* output directory (after the prompt was built), the images.generate
\* request, the download, the verification of the saved file; or nowhere.
Faults == {"none", "client", "mkdir", "generate", "download", "verify"}

\* The empty image_path of an error result.
NoPath == <<>>

\* Calls of client.images.generate made by one call of the tool: none when
\* the client or the output directory cannot be created, otherwise one
\* (there is no loop around it).
GenerateCalls(fault) == IF fault \in {"client", "mkdir"} THEN 0 ELSE 1

\* The file is written once the download has succeeded, before img.verify().
WritesFile(fault) == fault \in {"none", "verify"}

\* What the failing step raises inside the try block of the tool: the
\* client's, mkdir's or the request's own exception, or the plain Exception in which
\* _download_and_save_image wraps whatever went wrong in it.
RaisedBy(fault) ==
  CASE fault = "client" -> "OpenAIError"
    [] fault = "mkdir" -> "FileNotFoundError"
    [] fault = "generate" -> "APIError"
    [] fault \in {"download", "verify"} -> "Exception"
    [] OTHER -> "none"

\* `except Exception as e` around the whole body catches each of them.
CaughtApiErrorsOnly(exc) == exc \in {"OpenAIError", "APIError"}
Caught(exc) == exc # "none"

\* How the call ends and the dict it returns: image_path "" and
\* image_metadata.error on the except branch, the saved path on the normal
\* one.
ToolResult(title, fault, now) ==
  LET exc == RaisedBy(fault) IN
  [title |-> title,
   fault |-> fault,
   outcome |-> IF exc = "none" \/ Caught(exc) THEN "return" ELSE "raise",
   image_path |-> IF exc = "none" THEN Filename(title, now) ELSE NoPath,
   error |-> exc # "none" /\ Caught(exc),
   has_prompt |-> fault # "client",
   generate_calls |-> GenerateCalls(fault)]

\* One call of generate_image_from_summary, from entry to return; `dt`
\* ticks pass before _download_and_save_image reads the clock.
GenerateImage(title, fault, dt) ==
  /\ Len(images) < MaxImages
  /\ clock' = clock + dt
  /\ images' = Append(images, ToolResult(title, fault, clock'))
  /\ files' =
       IF WritesFile(fault)
       THEN {f \in files : f.name # Filename(title, clock')}
            \cup {[name |-> Filename(title, clock'), writer |-> Len(images) + 1]}
       ELSE files
  /\ UNCHANGED <<rvars, tvars, ovars, main>>

NextImage ==
  \E title \in Titles, fault \in Faults, dt \in 0..TicksPerSecond :
    GenerateImage(title, fault, dt)

SpecImage == Init /\ [][NextImage]_vars

\* ------------------------------------------------------------------ claims
\* The call task t is making or has last made, as recorded on its instance.
Cur(t) == calls[self[t]][idx[t]]
\* Task t has made a call and that call has ended.
Ended(t) == self[t] # 0 /\ pc[t] = "idle"

\* C1: on a fresh instance with max_iterations = M >= 0, call number M+1
\* ends at once with a terminal decision and the wrapped router is not
\* invoked on it.
C1_HardCeiling ==
  \A t \in Tasks :
    (self[t] # 0 /\ max_iterations[self[t]] >= 0
       /\ idx[t] = max_iterations[self[t]] + 1)
    => /\ pc[t] = "idle"
       /\ IsTerminal(ret[t])
       /\ dargs[t] = NoArgs
       /\ dret[t] = NoOutcome
       /\ Cur(t).branch = "ceiling"
       /\ Cur(t).delegated = 0
C1_Witness ==
  /\ max_iterations[1] = 3
  /\ self[1] = 1 /\ idx[1] = 4 /\ pc[1] = "idle"
  /\ IsTerminal(ret[1])
  /\ dargs[1] = NoArgs

\* C2: on every call that takes the delegate branch, the wrapped router
\* receives exactly the arguments route() received, and the decision it
\* returns is exactly the decision route() returns.
C2_DelegateTransparency ==
  \A t \in Tasks :
    (self[t] # 0 /\ Cur(t).branch = "delegate")
    => /\ dargs[t] = args[t]
       /\ (pc[t] = "idle" /\ dret[t].kind = "return") => ret[t] = dret[t]
C2_Witness ==
  /\ Ended(1) /\ Cur(1).branch = "delegate"
  /\ args[1] = [current_agent |-> "summary_agent", result |-> "result_b",
                context |-> "context_b"]
  /\ dargs[1] = args[1]
  /\ dret[1] = Returned(HandOffRequest("html_agent"))
  /\ ret[1] = dret[1]

\* C3: a ceiling-terminated call leaves the counter at 0; the next M calls
\* take the delegate branch with the counter at 1..M, and the call after
\* those is ceiling-terminated again.
C3_ResetOnTermination ==
  \A r \in live : \A i \in 1..Len(calls[r]) :
    calls[r][i].branch = "ceiling"
    => /\ calls[r][i].after = 0
       /\ (i = Len(calls[r])) => current_iteration[r] = 0
       /\ \A j \in 1..max_iterations[r] :
            (i + j <= Len(calls[r]))
            => /\ calls[r][i + j].branch = "delegate"
               /\ calls[r][i + j].after = j
       /\ (max_iterations[r] >= 0 /\ i + max_iterations[r] + 1 <= Len(calls[r]))
          => calls[r][i + max_iterations[r] + 1].branch = "ceiling"
C3_Witness ==
  /\ max_iterations[1] = 3
  /\ Len(calls[1]) = 8
  /\ calls[1][3].branch = "delegate"
  /\ calls[1][4].branch = "ceiling" /\ calls[1][4].after = 0
  /\ calls[1][5].branch = "delegate" /\ calls[1][5].after = 1
  /\ calls[1][8].branch = "ceiling"

\* C4: for the first N <= M calls on a fresh instance, the counter after
\* the k-th call is k and each call hands back the wrapped router's
\* decision unchanged.
C4_MonotonicCounting ==
  /\ \A r \in live : \A k \in 1..Len(calls[r]) :
       k <= max_iterations[r]
       => /\ calls[r][k].branch = "delegate"
          /\ calls[r][k].after = k
          /\ (k = Len(calls[r])) => current_iteration[r] = k
  /\ \A t \in Tasks :
       (Ended(t) /\ idx[t] <= max_iterations[self[t]] /\ dret[t].kind = "return")
       => ret[t] = dret[t]
C4_Witness ==
  /\ max_iterations[1] = 3
  /\ Len(calls[1]) = 3
  /\ current_iteration[1] = 3
  /\ Ended(1)
  /\ ret[1] = Returned(HandOffRequest("summary_agent"))

\* C5 as stated: the decision of a ceiling-terminated call has
\* next_agent = None.
C5_AsStated ==
  \A t \in Tasks :
    (Ended(t) /\ Cur(t).branch = "ceiling") => ret[t].next_agent = PyNone
\* C5, amended: the decision of a ceiling-terminated call is a returned
\* HandOffRequest whose next_agent is the empty string: the stop value,
\* neither None nor an agent identifier.
C5_StopIsEmptyString ==
  \A t \in Tasks :
    (Ended(t) /\ Cur(t).branch = "ceiling")
    => /\ ret[t] = Returned(HandOffRequest(""))
       /\ ret[t].next_agent \notin Agents \cup {PyNone}
C5_Witness ==
  /\ Ended(1) /\ Cur(1).branch = "ceiling"
  /\ max_iterations[1] = 2 /\ idx[1] = 3
  /\ ret[1].next_agent = ""

\* A workflow is in progress in task t.
InProgress(t) == run[t].state \in {"executing", "routing"}
\* The workflow of task t has stopped.
Stopped(t) == run[t].state \in {"halted", "failed"}

\* C6: a workflow whose agents all hand off through its own fresh
\* LimitRouter with ceiling M >= 0 makes at most M handoffs and at most M+1
\* agent executions, and it always stops, whatever the wrapped router names.
C6_BoundedRun ==
  /\ [](\A t \in Tasks :
          (run[t].state # "none" /\ settings_max_iterations >= 0)
          => /\ run[t].handoffs <= settings_max_iterations
             /\ run[t].executions <= settings_max_iterations + 1)
  /\ \A t \in Tasks : (InProgress(t) ~> Stopped(t))
C6_Witness ==
  /\ settings_max_iterations = 3
  /\ run[1].state = "halted"
  /\ run[1].handoffs = 3
  /\ run[1].executions = 4
  /\ Cur(1).branch = "ceiling"
  /\ ret[1] = Returned(StopRequest)

\* C7: when the wrapped router raises, route() ends by raising that same
\* exception: nothing is returned, and the wrapped router was invoked once.
C7_DelegateFailurePropagates ==
  \A t \in Tasks :
    (Ended(t) /\ dret[t].kind = "raise")
    => /\ ret[t].kind = "raise"
       /\ ret[t].error = dret[t].error
       /\ ret[t].next_agent = "-"
       /\ Cur(t).branch = "delegate"
       /\ Cur(t).delegated = 1
C7_Witness ==
  /\ Ended(1)
  /\ dret[1] = Raised("TimeoutError")
  /\ ret[1] = Raised("TimeoutError")
  /\ Cur(1).delegated = 1

\* C8: with max_iterations = 0 every call, the first included, ends with a
\* terminal decision and the wrapped router is never invoked.
C8_ZeroCeiling ==
  \A r \in live :
    max_iterations[r] = 0
    => /\ \A i \in 1..Len(calls[r]) :
            calls[r][i].branch = "ceiling" /\ calls[r][i].delegated = 0
       /\ \A t \in Tasks :
            self[t] = r
            => pc[t] = "idle" /\ IsTerminal(ret[t]) /\ dargs[t] = NoArgs
C8_Witness ==
  /\ max_iterations[1] = 0
  /\ Len(calls[1]) = 2
  /\ Ended(1) /\ idx[1] = 2
  /\ IsTerminal(ret[1])
  /\ calls[1][1].branch = "ceiling"

\* C9: when the wrapped router itself returns a terminal decision, route()
\* returns that decision, the counter is one more than before the call (it
\* is not reset) and no ceiling message is printed by the call.
C9_DelegateStopKeepsCounter ==
  \A t \in Tasks :
    (Ended(t) /\ IsTerminal(dret[t]))
    => /\ ret[t] = dret[t]
       /\ Cur(t).after = Cur(t).pre + 1
       /\ current_iteration[self[t]] = Cur(t).pre + 1
       /\ Cur(t).diag = 0
C9_Witness ==
  /\ max_iterations[1] = 1
  /\ Ended(1) /\ idx[1] = 1
  /\ dret[1] = Returned(HandOffRequest(PyNone))
  /\ ret[1] = dret[1]
  /\ current_iteration[1] = 1
  /\ stdout = 0

\* C10: the ceiling test of every call is made on the counter before the
\* call plus one, and every call that takes the delegate branch leaves the
\* counter at that value whatever the wrapped router does.
C10_IncrementFirst ==
  /\ \A r \in live : \A i \in 1..Len(calls[r]) :
       /\ calls[r][i].branch = "ceiling" <=> calls[r][i].pre + 1 > max_iterations[r]
       /\ calls[r][i].branch = "delegate" => calls[r][i].after = calls[r][i].pre + 1
       /\ calls[r][i].pre = IF i = 1 THEN 0 ELSE calls[r][i - 1].after
  /\ \A t \in Tasks :
       (self[t] # 0 /\ Cur(t).branch = "delegate")
       => current_iteration[self[t]] = Cur(t).pre + 1
C10_Witness ==
  /\ Ended(1) /\ Cur(1).branch = "delegate"
  /\ Cur(1).pre = 2
  /\ dret[1].kind = "raise"
  /\ current_iteration[1] = 3

\* C11 as stated: a LimitRouter with a negative max_iterations cannot be
\* constructed, so no route() call is ever served by one.
C11_AsStated ==
  \A r \in live : Len(calls[r]) > 0 => max_iterations[r] >= 0

\* C12: a call prints the ceiling message exactly once if it is
\* ceiling-terminated and not at all otherwise, so the lines printed are as
\* many as the ceiling-terminated calls.
CeilingCalls(r) == {i \in 1..Len(calls[r]) : calls[r][i].branch = "ceiling"}
C12_MessageIffCeiling ==
  /\ \A r \in live : \A i \in 1..Len(calls[r]) :
       calls[r][i].diag = IF calls[r][i].branch = "ceiling" THEN 1 ELSE 0
  /\ stdout = Cardinality(CeilingCalls(1))
C12_Witness ==
  /\ max_iterations[1] = 1
  /\ Len(calls[1]) = 4
  /\ calls[1][3].diag = 0
  /\ calls[1][4].diag = 1
  /\ stdout = 2
  /\ Ended(1)

\* C13: a call that has ended has ended in exactly one of three ways: it
\* returned a decision naming an agent, it returned a terminal decision, or
\* it raised the exception the wrapped router raised.  A ceiling-terminated
\* call returns; an exception leaves route() only after the wrapped router
\* was invoked and raised it.
NamesAgent(out) == out.kind = "return" /\ out.next_agent \in Agents
C13_ThreeOutcomes ==
  \A t \in Tasks :
    Ended(t)
    => /\ \/ NamesAgent(ret[t]) /\ ~IsTerminal(ret[t]) /\ ret[t].kind # "raise"
          \/ ~NamesAgent(ret[t]) /\ IsTerminal(ret[t]) /\ ret[t].kind # "raise"
          \/ ~NamesAgent(ret[t]) /\ ~IsTerminal(ret[t]) /\ ret[t].kind = "raise"
       /\ Cur(t).branch = "ceiling" => IsTerminal(ret[t])
       /\ ret[t].kind = "raise"
          => /\ Cur(t).branch = "delegate"
             /\ Cur(t).delegated = 1
             /\ dret[t].kind = "raise"
             /\ ret[t].error = dret[t].error
C13_Witness ==
  /\ max_iterations[1] = 1
  /\ Ended(1) /\ idx[1] = 3
  /\ ret[1] = Raised("ValueError")
  /\ calls[1][2].branch = "ceiling"

\* C14: no step of route() changes config.max_iterations or
\* config.orchestrator of an instance.
C14_ConfigFrame ==
  [][\A r \in live :
       /\ max_iterations'[r] = max_iterations[r]
       /\ orchestrator'[r] = orchestrator[r]]_vars
C14_Witness ==
  /\ max_iterations[1] = 2
  /\ orchestrator[1] = 1
  /\ Len(calls[1]) = 4
  /\ calls[1][3].branch = "ceiling"
  /\ Ended(1)
  /\ current_iteration[1] = 1

\* C17: on an instance with ceiling M >= 0 the ceiling-terminated calls are
\* exactly the calls whose number is a multiple of M+1, whatever the wrapped
\* router did on the others; each of them returns one terminal decision.
C17_CeilingEveryMPlusOne ==
  /\ \A r \in live :
       max_iterations[r] >= 0
       => \A i \in 1..Len(calls[r]) :
            /\ calls[r][i].branch = "ceiling" <=> i % (max_iterations[r] + 1) = 0
            /\ calls[r][i].delegated = IF i % (max_iterations[r] + 1) = 0 THEN 0 ELSE 1
  /\ \A t \in Tasks :
       (Ended(t) /\ Cur(t).branch = "ceiling") => IsTerminal(ret[t])
C17_Witness ==
  /\ max_iterations[1] = 2
  /\ Len(calls[1]) = 7
  /\ calls[1][3].branch = "ceiling"
  /\ calls[1][6].branch = "ceiling"
  /\ Cardinality(CeilingCalls(1)) = 2
  /\ Ended(1)
  /\ dret[1].kind = "raise"

\* C18: whenever no call is in progress, the counter of an instance with
\* ceiling M >= 0 is between 0 and M.
C18_CounterRange ==
  (\A t \in Tasks : pc[t] = "idle")
  => \A r \in live :
       max_iterations[r] >= 0
       => /\ 0 <= current_iteration[r]
          /\ current_iteration[r] <= max_iterations[r]
C18_Witness ==
  /\ max_iterations[1] = 3
  /\ Len(calls[1]) = 4
  /\ calls[1][3].after = 3
  /\ calls[1][4].branch = "ceiling"
  /\ current_iteration[1] = 0
  /\ Ended(1)

\* C20: when calls of several coroutines interleave on one instance, each
\* call's increment, test and reset act on the counter the previous call
\* left (no increment is lost), and with M >= 0 the calls that take the
\* ceiling branch are exactly those whose number is a multiple of M+1: M
\* calls reach the wrapped router between two of them, never more.
CounterLeftBy(r, i) ==
  IF i = 0 \/ calls[r][i].branch = "ceiling" THEN 0 ELSE calls[r][i].pre + 1
C20_AtomicIncrementAndTest ==
  \A r \in live :
    /\ current_iteration[r] = CounterLeftBy(r, Len(calls[r]))
    /\ \A i \in 1..Len(calls[r]) :
         /\ calls[r][i].pre = CounterLeftBy(r, i - 1)
         /\ calls[r][i].branch = "ceiling" <=> calls[r][i].pre + 1 > max_iterations[r]
         /\ max_iterations[r] >= 0
            => (calls[r][i].branch = "delegate" <=> i % (max_iterations[r] + 1) # 0)
C20_Witness ==
  /\ max_iterations[1] = 1
  /\ pc[1] = "awaiting" /\ self[1] = 1 /\ idx[1] = 1
  /\ pc[2] = "awaiting" /\ self[2] = 1 /\ idx[2] = 3
  /\ calls[1][2].branch = "ceiling"
  /\ current_iteration[1] = 1

\* C19: the counter of an instance goes back to 0 only in a step that is a
\* ceiling-terminated call.  A run that stops after c <= M calls without
\* reaching the ceiling leaves the counter at c, and a run that reuses the
\* instance with the counter at c gets M - c delegated calls: its call
\* number M - c + 1 is ceiling-terminated.
LastCall(r) == calls[r][Len(calls[r])]
C19_ResetOnlyAtCeiling ==
  /\ [][\A r \in live :
         (current_iteration[r] # 0 /\ current_iteration'[r] = 0)
         => /\ Len(calls'[r]) = Len(calls[r]) + 1
            /\ calls'[r][Len(calls'[r])].branch = "ceiling"]_vars
  /\ [](\A t \in Tasks :
          (run[t].state \in {"routing", "halted"} /\ settings_max_iterations >= 0)
          => LET c == run[t].carry
                 m == settings_max_iterations
             IN /\ c <= m
                /\ run[t].handoffs <= m - c
                /\ run[t].executions <= m - c + 1
                /\ Cur(t).branch = "ceiling" <=> run[t].executions = m - c + 1
                /\ (pc[t] = "idle" /\ Cur(t).branch = "delegate")
                   => current_iteration[run[t].router] = c + run[t].executions)
C19_Witness ==
  /\ settings_max_iterations = 3
  /\ run[1].carry = 2
  /\ run[1].state = "halted"
  /\ run[1].executions = 2
  /\ run[1].handoffs = 1
  /\ Cur(1).branch = "ceiling"
  /\ Len(calls[run[1].router]) = 4

\* C15 as stated: a call of the image tool that reports an error after the
\* generation, the download or the verification failed has made at least
\* two images.generate requests.
C15_AsStated ==
  \A i \in 1..Len(images) :
    (images[i].error /\ images[i].fault \in {"generate", "download", "verify"})
    => images[i].generate_calls >= 2

\* C16 as stated: two successful calls of the image tool never return the
\* same image_path.
C16_AsStated ==
  \A i, j \in 1..Len(images) :
    (i < j /\ ~images[i].error /\ ~images[j].error)
    => images[i].image_path # images[j].image_path

\* C24: a workflow whose HTML save fails still returns the flock result,
\* without saved_html_path; saved_html_path is in the returned result only
\* when there was an article and its save succeeded; and a workflow whose
\* set-up or flock run failed ends by raising, never by returning.
C24_SaveFailureIsNotFatal ==
  /\ [](\A t \in Tasks :
          /\ run[t].save_error
             => run[t].state = "returned" /\ ~run[t].saved_html_path
          /\ run[t].saved_html_path
             => /\ run[t].state = "returned"
                /\ run[t].result = "html"
                /\ ~run[t].save_error
          /\ run[t].state = "raised" => run[t].result = "none")
  /\ [][\A t \in Tasks :
          run[t].state = "failed" => run'[t].state \in {"failed", "raised"}]_vars
C24_Witness ==
  /\ run[1].state = "returned"
  /\ run[1].result = "html"
  /\ run[1].save_error
  /\ ~run[1].saved_html_path
  /\ run[1].handoffs = 2

\* C22: each of the successive workflows of a caller starts with a router
\* whose counter is 0 and which is the handoff_router of every agent, and
\* with a ceiling M >= 0 its route calls are delegated up to call M and
\* ceiling-terminated exactly on call M+1, however the previous workflow
\* ended.
C22_FreshCounterPerRun ==
  \A t \in Tasks :
    /\ (run[t].state = "executing" /\ run[t].executions = 0)
       => /\ run[t].router \in live
          /\ current_iteration[run[t].router] = 0
          /\ calls[run[t].router] = <<>>
          /\ \A a \in Agents : handoff_router[a] = run[t].router
    /\ (run[t].state \in {"routing", "halted"} /\ settings_max_iterations >= 0)
       => /\ self[t] = run[t].router
          /\ idx[t] = run[t].executions
          /\ Cur(t).pre = run[t].executions - 1
          /\ Cur(t).branch = "ceiling"
             <=> run[t].executions = settings_max_iterations + 1
          /\ run[t].handoffs <= settings_max_iterations
\* The second workflow is ceiling-terminated after its full 2 handoffs; the
\* first one ended on a delegate's early stop and left its counter at 1.
C22_Witness ==
  /\ settings_max_iterations = 2
  /\ live = {1, 2}
  /\ current_iteration[1] = 1
  /\ run[1].router = 2
  /\ run[1].state = "halted"
  /\ run[1].handoffs = 2
  /\ run[1].executions = 3
  /\ Cur(1).branch = "ceiling"

\* C21 as stated: a route call made on behalf of a workflow is made on the
\* LimitRouter that this workflow's run_full_workflow constructed, also
\* when another workflow is in progress.
C21_AsStated ==
  \A t \in Tasks :
    run[t].state = "routing" => self[t] = run[t].router

\* C23: every call of the image tool ends by returning; a call in which a
\* step failed returns the empty image_path and an error entry; a returned
\* image_path is non-empty only when no step failed, and then there is no
\* error entry.
C23_ToolNeverRaises ==
  \A i \in 1..Len(images) :
    /\ images[i].outcome = "return"
    /\ images[i].fault # "none"
       => images[i].image_path = NoPath /\ images[i].error
    /\ images[i].image_path # NoPath
       => images[i].fault = "none" /\ ~images[i].error
\* A call whose verification failed after the file was written, then a
\* call that succeeded.
C23_Witness ==
  /\ Len(images) = 2
  /\ images[1].fault = "verify"
  /\ images[1].outcome = "return"
  /\ images[1].image_path = NoPath
  /\ images[1].error
  /\ \E f \in files : f.writer = 1
  /\ images[2].fault = "none"
  /\ images[2].image_path # NoPath
  /\ ~images[2].error

\* C25: a main() that could not read the Azure settings, or that read an
\* empty or whitespace-only topic, has returned without any
\* run_full_workflow having been started; and a main() whose
\* run_full_workflow was started never ends by raising, in particular not
\* when that run_full_workflow has raised (main() raises only when input()
\* did, before any workflow).
IsBlank(str) == \A i \in 1..Len(str) : str[i] \in {" ", "\t"}
C25_MainGuardsTheWorkflow ==
  \A t \in Tasks :
    /\ (main[t].state # "none"
        /\ (~main[t].readable
            \/ (main[t].asked /\ ~main[t].eof /\ IsBlank(main[t].raw))))
       => /\ main[t].state = "returned"
          /\ run[t].state = "none"
          /\ live = {}
    /\ main[t].state = "raised" => main[t].eof /\ run[t].state = "none"
    /\ run[t].state = "raised" => main[t].state \in {"awaiting", "returned"}
    /\ main[t].exit = "workflow_error" => run[t].state = "raised"
C25_Witness ==
  /\ main[1].state = "returned"
  /\ main[1].readable
  /\ main[1].raw = <<"\t", " ">>
  /\ main[1].exit = "empty_topic"
  /\ run[1].state = "none"

====
